---- MODULE Spec2Model ----
(***************************************************************************)
(* Model of the mascot contest backend (src/backend/server.js): the three  *)
(* in-memory collections users, mascots (the contest entries) and votes,   *)
(* their JSON files, the identity tokens handed out by register and login, *)
(* and one action per request handler.                                     *)
(*                                                                         *)
(* Records keep the fields the handlers decide on.  The audit fields       *)
(* (registrationIP, submissionIP, voteIP, createdAt), the entry's name and *)
(* description and the vote's own id (votes.length + 1) are written once   *)
(* and never read by a handler, and are left out of the records.  The      *)
(* uploads directory is the set of the names of its files, and an entry's  *)
(* imageUrl is the name of its file, 0 for null.  The paths of a handler   *)
(* on which an fs call throws are actions of their own (...Fails), taken   *)
(* by the specifications that name them; bcrypt does not throw.            *)
(***************************************************************************)
EXTENDS Integers, Sequences, FiniteSets, TLC

VARIABLES users, mascots, votes, files, uploads, tokens, pending, last,
          faults, token, currentUser, loading, inflight

vars == <<users, mascots, votes, files, uploads, tokens, pending, last,
          faults, token, currentUser, loading, inflight>>

\* The state of the browser's AuthProvider: its token, its user (currentUser),
\* its loading flag and the requests it has sent and not yet heard back from.
client == <<token, currentUser, loading, inflight>>

(***************************************************************************)
(* Bounds of the model.                                                    *)
(***************************************************************************)
MaxUsers == 2
MaxVotes == 2
MaxCount == 2
MaxPending == 2
MaxFiles == 1
MaxFaults == 1
MaxRequests == 2

(***************************************************************************)
(* The strings of the requests.  An email is kept as a string; the         *)
(* handlers that take it apart work on its characters, Chars(email).       *)
(***************************************************************************)
DemoEmail == "demo@example.com"
EmailA == "a@ofiservices.com"
EmailB == "b@OFISERVICES.COM"
EmailC == "c@example.com"
EmailBad == "abc"

Emails == {EmailA, EmailB, EmailC, EmailBad, DemoEmail}

Chars(s) ==
    CASE s = DemoEmail ->
           <<"d","e","m","o","@","e","x","a","m","p","l","e",".","c","o","m">>
      [] s = EmailA ->
           <<"a","@","o","f","i","s","e","r","v","i","c","e","s",".","c","o","m">>
      [] s = EmailB ->
           <<"b","@","O","F","I","S","E","R","V","I","C","E","S",".","C","O","M">>
      [] s = EmailC ->
           <<"c","@","e","x","a","m","p","l","e",".","c","o","m">>
      [] s = EmailBad -> <<"a","b","c">>
      [] s = "@ofiservices.com" ->
           <<"@","o","f","i","s","e","r","v","i","c","e","s",".","c","o","m">>

UpperChars == <<"A","B","C","D","E","F","G","H","I","J","K","L","M",
                "N","O","P","Q","R","S","T","U","V","W","X","Y","Z">>
LowerChars == <<"a","b","c","d","e","f","g","h","i","j","k","l","m",
                "n","o","p","q","r","s","t","u","v","w","x","y","z">>

LowerChar(c) ==
    IF \E i \in DOMAIN UpperChars : UpperChars[i] = c
    THEN LowerChars[CHOOSE i \in DOMAIN UpperChars : UpperChars[i] = c]
    ELSE c

\* String.prototype.toLowerCase, on the characters
toLowerCase(cs) == [i \in 1..Len(cs) |-> LowerChar(cs[i])]

\* String.prototype.endsWith, on the characters
endsWith(cs, suffix) ==
    /\ Len(cs) >= Len(suffix)
    /\ SubSeq(cs, Len(cs) - Len(suffix) + 1, Len(cs)) = suffix

\* express-validator's isEmail, as far as the inputs exercise it: one "@"
\* with a local part before it and a dotted domain after it.
isEmail(cs) ==
    /\ Cardinality({i \in DOMAIN cs : cs[i] = "@"}) = 1
    /\ LET at == CHOOSE i \in DOMAIN cs : cs[i] = "@"
       IN  /\ at > 1
           /\ \E j \in DOMAIN cs : j > at + 1 /\ j < Len(cs) /\ cs[j] = "."

\* bcrypt.hash / bcrypt.compare: a one-way image of the password.
Hash(password) == <<"bcrypt", password>>
Compare(password, hashed) == hashed = Hash(password)

\* The request bodies the clients send.
RegisterInputs ==
    {<<"alice", EmailA, "password">>, <<"bob", EmailB, "password">>,
     <<"alice", EmailB, "password">>,
     <<"al", EmailA, "password">>, <<"alice", EmailBad, "password">>,
     <<"alice", EmailA, "abc">>, <<"alice", EmailC, "password">>}

LoginInputs ==
    {<<DemoEmail, "password">>, <<DemoEmail, "abc">>, <<DemoEmail, "">>,
     <<EmailA, "password">>, <<EmailB, "password">>, <<EmailBad, "password">>}

MascotInputs == {<<"Fox", "A fox">>, <<"", "A fox">>, <<"Fox", "">>}

\* An identity assertion: the handlers read only the id of its payload.
\* NoToken is a request without an Authorization header, BadToken one whose
\* token fails jwt.verify.
NoToken == [present |-> FALSE, valid |-> FALSE, id |-> 0]
BadToken == [present |-> TRUE, valid |-> FALSE, id |-> 0]
generateToken(user) == [present |-> TRUE, valid |-> TRUE, id |-> user.id]

\* (mutant: every request goes on to the handler)
authenticateToken_Open(tok) == 0

\* authenticateToken: 0 when the request goes on to the handler.
authenticateToken(tok) ==
    IF ~tok.present THEN 401
    ELSE IF ~tok.valid THEN 403
    ELSE 0

\* parseInt(req.params.id): MaxUsers + 1 is an id no entry has.
MascotIds == 1..(MaxUsers + 1)

(***************************************************************************)
(* Array helpers (indices are 1-based; 0 stands for JavaScript's -1 and    *)
(* for undefined).                                                         *)
(***************************************************************************)
splice(s, i) == SubSeq(s, 1, i - 1) \o SubSeq(s, i + 1, Len(s))

Min(S) == CHOOSE x \in S : \A y \in S : x <= y

Max(a, b) == IF a >= b THEN a ELSE b

\* saveData(type): the file of the collection takes the collection's contents.
saveData(f, type, data) == [f EXCEPT ![type] = data]

\* loadData with no data directory: the demo user, saved at once.
DemoUser ==
    [id |-> 1, username |-> "demo", email |-> DemoEmail,
     password |-> Hash("password")]

Init ==
    /\ users = <<DemoUser>>
    /\ mascots = <<>>
    /\ votes = <<>>
    /\ files = [users |-> <<DemoUser>>, mascots |-> <<>>, votes |-> <<>>]
    /\ uploads = {}
    /\ tokens = {}
    /\ pending = <<>>
    /\ last = [op |-> "start", status |-> 0, user |-> 0, mascot |-> 0, id |-> 0]
    /\ faults = 0
    /\ token = 0
    /\ currentUser = 0
    /\ loading = FALSE
    /\ inflight = <<>>

\* The response to the last request: of an accepted request, the operation,
\* the requester's id, the entry id of the request and the id or counter it
\* returns; of a rejected request, its status code, with nothing changed.
Respond(op, status, user, mascot, id) ==
    /\ last' = [op |-> op, status |-> status, user |-> user,
                mascot |-> mascot, id |-> id]
    /\ UNCHANGED <<faults, client>>

Refuse(status) ==
    /\ last' = [op |-> "rejected", status |-> status, user |-> 0, mascot |-> 0,
                id |-> 0]
    /\ UNCHANGED <<faults, client>>

\* The answer of a request in which saveData threw; faults counts the writes
\* that have failed.
Fail(op, user, mascot) ==
    /\ faults < MaxFaults
    /\ last' = [op |-> op, status |-> 500, user |-> user, mascot |-> mascot,
                id |-> 0]
    /\ faults' = faults + 1
    /\ UNCHANGED client

\* (mutant: the answer 403 is sent after an entry was spliced)
Reject_AfterSplice(status) ==
    /\ Refuse(status)
    /\ mascots' = IF status = 403 /\ mascots # <<>> THEN Tail(mascots)
                  ELSE mascots
    /\ UNCHANGED <<users, votes, files, uploads, tokens, pending>>

Reject(status) ==
    /\ Refuse(status)
    /\ UNCHANGED <<users, mascots, votes, files, uploads, tokens, pending>>

(***************************************************************************)
(* POST /api/auth/register.  The handler suspends at bcrypt.hash between   *)
(* the lookups and the append, so it is two steps: RegisterBegin up to the *)
(* await, RegisterFinish from it.                                          *)
(***************************************************************************)
\* The two tests on the characters of an email, evaluated once for the
\* emails of the requests.
WellFormedEmails == {e \in Emails : isEmail(Chars(e))}

AllowedEmails ==
    {e \in Emails :
        endsWith(toLowerCase(Chars(e)), Chars("@ofiservices.com"))}

registerErrors(username, email, password) ==
    \/ Len(username) < 3
    \/ email \notin WellFormedEmails
    \/ Len(password) < 6

\* (mutant: the handler without the test on the domain)
domainAllowed_Any(email) == TRUE

\* email.toLowerCase().endsWith('@ofiservices.com')
domainAllowed(email) == email \in AllowedEmails

existingUserByEmail(email) == \E i \in DOMAIN users : users[i].email = email

existingUserByUsername(username) ==
    \E i \in DOMAIN users : users[i].username = username

RegisterBegin(username, email, password) ==
    IF registerErrors(username, email, password)
    THEN Reject(400)
    ELSE IF ~domainAllowed(email)
    THEN Reject(400)
    ELSE IF existingUserByEmail(email)
    THEN Reject(400)
    ELSE IF existingUserByUsername(username)
    THEN Reject(400)
    ELSE /\ Len(users) + Len(pending) < MaxUsers
         /\ Len(pending) < MaxPending
         /\ pending' = Append(pending, [username |-> username, email |-> email,
                                        password |-> password])
         /\ UNCHANGED <<users, mascots, votes, files, uploads, tokens, last,
                        faults, client>>

newUserId == Len(users) + 1

RegisterFinish(i) ==
    LET req == pending[i]
        newUser == [id |-> newUserId, username |-> req.username,
                    email |-> req.email, password |-> Hash(req.password)]
    IN  /\ pending' = splice(pending, i)
        /\ users' = Append(users, newUser)
        /\ files' = saveData(files, "users", users')
        /\ tokens' = tokens \cup {generateToken(newUser)}
        /\ Respond("register", 201, newUser.id, 0, newUser.id)
        /\ UNCHANGED <<mascots, votes, uploads>>

(***************************************************************************)
(* POST /api/auth/login.  The token is made from the record found before   *)
(* the await of bcrypt.compare, so the handler acts on the state it starts *)
(* in and is one step.                                                     *)
(***************************************************************************)
Login(email, password) ==
    LET found == {i \in DOMAIN users : users[i].email = email}
    IN  IF email \notin WellFormedEmails \/ Len(password) = 0
        THEN Reject(400)
        ELSE IF found = {}
        THEN Reject(401)
        ELSE LET user == users[Min(found)]
             IN  IF ~Compare(password, user.password)
                 THEN Reject(401)
                 ELSE /\ tokens' = tokens \cup {generateToken(user)}
                      /\ Respond("login", 200, user.id, 0, 0)
                      /\ UNCHANGED <<users, mascots, votes, files, uploads,
                                      pending>>

(***************************************************************************)
(* Lookups of the handlers: the index of the first match, 0 for none.      *)
(***************************************************************************)
findMascotById(mascotId) ==
    LET found == {i \in DOMAIN mascots : mascots[i].id = mascotId}
    IN  IF found = {} THEN 0 ELSE Min(found)

findMascotByUser(userId) ==
    LET found == {i \in DOMAIN mascots : mascots[i].userId = userId}
    IN  IF found = {} THEN 0 ELSE Min(found)

findVote(userId, mascotId) ==
    LET found == {i \in DOMAIN votes :
                     votes[i].userId = userId /\ votes[i].mascotId = mascotId}
    IN  IF found = {} THEN 0 ELSE Min(found)

findUserById(userId) ==
    LET found == {i \in DOMAIN users : users[i].id = userId}
    IN  IF found = {} THEN 0 ELSE Min(found)

\* (mutant: the votes of a deleted entry are kept)
votesNotFor_Kept(vs, mascotId) == vs

\* votes.filter(v => v.mascotId !== mascotId)
votesNotFor(vs, mascotId) ==
    LET Keep(v) == v.mascotId # mascotId IN SelectSeq(vs, Keep)

\* votes.filter(v => v.userId !== userId)
votesNotBy(vs, userId) ==
    LET Keep(v) == v.userId # userId IN SelectSeq(vs, Keep)

(***************************************************************************)
(* POST /api/mascots                                                       *)
(***************************************************************************)
mascotErrors(name, description) == Len(name) < 1 \/ Len(description) < 1

\* (mutant: the handler without the one-per-user test)
existingMascot_Skipped(userId) == FALSE

\* mascots.find(m => m.userId === req.user.id), as the handler tests it
existingMascot(userId) == findMascotByUser(userId) # 0

newMascotId == Len(mascots) + 1

\* multer's filename: Date.now() and a random number, a name that no file
\* of the directory and no entry carries.
filename ==
    Min({n \in 1..(MaxFiles + MaxUsers + 1) :
            n \notin uploads /\ \A i \in DOMAIN mascots : mascots[i].imageUrl # n})

\* upload.single('image') runs after authenticateToken and before the
\* handler: the file of the request, when it has one, is in the directory
\* whatever the handler answers.
CreateEntry(tok, name, description, file) ==
    LET auth == authenticateToken(tok)
        userId == tok.id
        stored == IF file THEN uploads \cup {filename} ELSE uploads
    IN  IF auth # 0
        THEN Reject(auth)
        ELSE /\ file => Cardinality(uploads) < MaxFiles
             /\ uploads' = stored
             /\ IF mascotErrors(name, description) \/ existingMascot(userId)
                THEN /\ Refuse(400)
                     /\ UNCHANGED <<users, mascots, votes, files, tokens,
                                    pending>>
                ELSE LET newMascot ==
                             [id |-> newMascotId, votes |-> 0,
                              userId |-> userId,
                              imageUrl |-> IF file THEN filename ELSE 0]
                     IN  /\ mascots' = Append(mascots, newMascot)
                         /\ files' = saveData(files, "mascots", mascots')
                         /\ Respond("createEntry", 201, userId, newMascot.id,
                                    newMascot.id)
                         /\ UNCHANGED <<users, votes, tokens, pending>>

(***************************************************************************)
(* DELETE /api/mascots/:id                                                 *)
(***************************************************************************)
\* if (imageUrl) { if (fs.existsSync(imagePath)) fs.unlinkSync(imagePath) }
unlink(dir, imageUrl) == IF imageUrl # 0 THEN dir \ {imageUrl} ELSE dir

\* (mutant: the handler without the test on the owner)
notOwner_Skipped(mascot, userId) == FALSE

\* mascot.userId !== userId
notOwner(mascot, userId) == mascot.userId # userId

DeleteEntry(tok, mascotId) ==
    LET auth == authenticateToken(tok)
        userId == tok.id
        mascotIndex == findMascotById(mascotId)
    IN  IF auth # 0
        THEN Reject(auth)
        ELSE IF mascotIndex = 0
        THEN Reject(404)
        ELSE IF notOwner(mascots[mascotIndex], userId)
        THEN Reject(403)
        ELSE /\ uploads' = unlink(uploads, mascots[mascotIndex].imageUrl)
             /\ mascots' = splice(mascots, mascotIndex)
             /\ votes' = votesNotFor(votes, mascotId)
             /\ files' = LET f == saveData(files, "mascots", mascots')
                         IN  IF Len(votes) - Len(votes') > 0
                             THEN saveData(f, "votes", votes')
                             ELSE f
             /\ Respond("deleteEntry", 200, userId, mascotId, 0)
             /\ UNCHANGED <<users, tokens, pending>>

(***************************************************************************)
(* POST /api/mascots/:id/vote                                              *)
(***************************************************************************)
\* (mutant: the handler without the one-vote-per-pair test)
existingVote_Skipped(userId, mascotId) == FALSE

\* votes.find(v => v.userId === userId && v.mascotId === mascotId), as tested
existingVote(userId, mascotId) == findVote(userId, mascotId) # 0

\* (mutant: the handler without the test on the owner of the entry)
isOwnMascot_Allowed(mascot, userId) == FALSE

\* mascot.userId === userId
isOwnMascot(mascot, userId) == mascot.userId = userId

\* (mutant: the counter is left as it was)
incrementedVotes_Same(n) == n

\* mascot.votes += 1
incrementedVotes(n) == n + 1

CastVote(tok, mascotId) ==
    LET auth == authenticateToken(tok)
        userId == tok.id
        mascotIndex == findMascotById(mascotId)
    IN  IF auth # 0
        THEN Reject(auth)
        ELSE IF mascotIndex = 0
        THEN Reject(404)
        ELSE IF isOwnMascot(mascots[mascotIndex], userId)
        THEN Reject(400)
        ELSE IF existingVote(userId, mascotId)
        THEN Reject(400)
        ELSE /\ Len(votes) < MaxVotes
             /\ mascots[mascotIndex].votes < MaxCount
             /\ votes' = Append(votes, [userId |-> userId,
                                        mascotId |-> mascotId])
             /\ mascots' = [mascots EXCEPT
                              ![mascotIndex].votes = incrementedVotes(@)]
             /\ files' = saveData(saveData(files, "mascots", mascots'),
                                  "votes", votes')
             /\ Respond("castVote", 200, userId, mascotId,
                        mascots'[mascotIndex].votes)
             /\ UNCHANGED <<users, uploads, tokens, pending>>

(***************************************************************************)
(* DELETE /api/mascots/:id/vote                                            *)
(***************************************************************************)
\* (mutant: the counter is decremented without the floor)
decrementedVotes_NoFloor(n) == n - 1

\* Math.max(0, mascot.votes - 1)
decrementedVotes(n) == Max(0, n - 1)

WithdrawVote(tok, mascotId) ==
    LET auth == authenticateToken(tok)
        userId == tok.id
        mascotIndex == findMascotById(mascotId)
        voteIndex == findVote(userId, mascotId)
    IN  IF auth # 0
        THEN Reject(auth)
        ELSE IF mascotIndex = 0
        THEN Reject(404)
        ELSE IF voteIndex = 0
        THEN Reject(404)
        ELSE /\ votes' = splice(votes, voteIndex)
             /\ mascots' = [mascots EXCEPT
                              ![mascotIndex].votes = decrementedVotes(@)]
             /\ files' = saveData(saveData(files, "votes", votes'),
                                  "mascots", mascots')
             /\ Respond("withdrawVote", 200, userId, mascotId,
                        mascots'[mascotIndex].votes)
             /\ UNCHANGED <<users, uploads, tokens, pending>>

(***************************************************************************)
(* DELETE /api/user/me                                                     *)
(***************************************************************************)
DeleteAccount(tok) ==
    LET auth == authenticateToken(tok)
        userId == tok.id
        userIndex == findUserById(userId)
        userMascot == findMascotByUser(userId)
        \* votes after the cascade of the user's entry
        votes1 == IF userMascot # 0
                  THEN votesNotFor(votes, mascots[userMascot].id)
                  ELSE votes
        votes2 == votesNotBy(votes1, userId)
        removedVotesCount == Len(votes1) - Len(votes2)
        files1 == IF userMascot # 0
                  THEN saveData(files, "mascots", mascots')
                  ELSE files
        files2 == IF removedVotesCount > 0
                  THEN saveData(files1, "votes", votes2)
                  ELSE files1
    IN  IF auth # 0
        THEN Reject(auth)
        ELSE IF userIndex = 0
        THEN Reject(404)
        ELSE /\ uploads' = IF userMascot # 0
                           THEN unlink(uploads, mascots[userMascot].imageUrl)
                           ELSE uploads
             /\ mascots' = IF userMascot # 0
                           THEN splice(mascots,
                                       findMascotById(mascots[userMascot].id))
                           ELSE mascots
             /\ votes' = votes2
             /\ users' = splice(users, userIndex)
             /\ files' = saveData(files2, "users", users')
             /\ Respond("deleteAccount", 200, userId,
                        IF userMascot # 0 THEN mascots[userMascot].id ELSE 0, 0)
             /\ UNCHANGED <<tokens, pending>>

(***************************************************************************)
(* The two deletions on the path where fs.unlinkSync throws: the file is   *)
(* there and stays, the catch of the handler answers 500, and the          *)
(* statements after the unlink are not run.                                *)
(***************************************************************************)
\* (mutant: the record is spliced before the file is unlinked)
mascotsAtUnlink_Spliced(ms, mascotIndex) == splice(ms, mascotIndex)

\* the entries when fs.unlinkSync is called: mascots.splice comes after it
mascotsAtUnlink(ms, mascotIndex) == ms

DeleteEntryUnlinkFails(tok, mascotId) ==
    LET userId == tok.id
        mascotIndex == findMascotById(mascotId)
    IN  /\ authenticateToken(tok) = 0
        /\ mascotIndex # 0
        /\ ~notOwner(mascots[mascotIndex], userId)
        /\ mascots[mascotIndex].imageUrl \in uploads
        /\ mascots' = mascotsAtUnlink(mascots, mascotIndex)
        /\ Respond("deleteEntry", 500, userId, mascotId, 0)
        /\ UNCHANGED <<users, votes, files, uploads, tokens, pending>>

DeleteAccountUnlinkFails(tok) ==
    LET userId == tok.id
        userMascot == findMascotByUser(userId)
    IN  /\ authenticateToken(tok) = 0
        /\ findUserById(userId) # 0
        /\ userMascot # 0
        /\ mascots[userMascot].imageUrl \in uploads
        /\ mascots' = mascotsAtUnlink(mascots,
                                      findMascotById(mascots[userMascot].id))
        /\ Respond("deleteAccount", 500, userId, mascots[userMascot].id, 0)
        /\ UNCHANGED <<users, votes, files, uploads, tokens, pending>>

(***************************************************************************)
(* The mutations on the paths where fs.writeFileSync throws in saveData.   *)
(* The statements before the failing saveData(at) have run, those after it *)
(* have not; the catch of the handler, or the error handler of express for *)
(* the handlers without a try, answers 500.                                *)
(***************************************************************************)
RegisterFinishFails(i) ==
    LET req == pending[i]
        newUser == [id |-> newUserId, username |-> req.username,
                    email |-> req.email, password |-> Hash(req.password)]
    IN  /\ pending' = splice(pending, i)
        /\ users' = Append(users, newUser)
        /\ Fail("register", newUser.id, 0)
        /\ UNCHANGED <<mascots, votes, files, uploads, tokens>>

CreateEntryFails(tok, name, description, file) ==
    LET userId == tok.id
        newMascot == [id |-> newMascotId, votes |-> 0, userId |-> userId,
                      imageUrl |-> IF file THEN filename ELSE 0]
    IN  /\ authenticateToken(tok) = 0
        /\ file => Cardinality(uploads) < MaxFiles
        /\ ~mascotErrors(name, description)
        /\ ~existingMascot(userId)
        /\ uploads' = IF file THEN uploads \cup {filename} ELSE uploads
        /\ mascots' = Append(mascots, newMascot)
        /\ Fail("createEntry", userId, newMascot.id)
        /\ UNCHANGED <<users, votes, files, tokens, pending>>

CastVoteFails(tok, mascotId, at) ==
    LET userId == tok.id
        mascotIndex == findMascotById(mascotId)
    IN  /\ authenticateToken(tok) = 0
        /\ mascotIndex # 0
        /\ ~isOwnMascot(mascots[mascotIndex], userId)
        /\ ~existingVote(userId, mascotId)
        /\ at \in {"mascots", "votes"}
        /\ Len(votes) < MaxVotes
        /\ mascots[mascotIndex].votes < MaxCount
        /\ votes' = Append(votes, [userId |-> userId, mascotId |-> mascotId])
        /\ mascots' = [mascots EXCEPT
                         ![mascotIndex].votes = incrementedVotes(@)]
        /\ files' = IF at = "mascots" THEN files
                    ELSE saveData(files, "mascots", mascots')
        /\ Fail("castVote", userId, mascotId)
        /\ UNCHANGED <<users, uploads, tokens, pending>>

WithdrawVoteFails(tok, mascotId, at) ==
    LET userId == tok.id
        mascotIndex == findMascotById(mascotId)
        voteIndex == findVote(userId, mascotId)
    IN  /\ authenticateToken(tok) = 0
        /\ mascotIndex # 0
        /\ voteIndex # 0
        /\ at \in {"votes", "mascots"}
        /\ votes' = splice(votes, voteIndex)
        /\ mascots' = IF at = "votes" THEN mascots
                      ELSE [mascots EXCEPT
                              ![mascotIndex].votes = decrementedVotes(@)]
        /\ files' = IF at = "votes" THEN files
                    ELSE saveData(files, "votes", votes')
        /\ Fail("withdrawVote", userId, mascotId)
        /\ UNCHANGED <<users, uploads, tokens, pending>>

DeleteEntryFails(tok, mascotId, at) ==
    LET userId == tok.id
        mascotIndex == findMascotById(mascotId)
        filtered == votesNotFor(votes, mascotId)
    IN  /\ authenticateToken(tok) = 0
        /\ mascotIndex # 0
        /\ ~notOwner(mascots[mascotIndex], userId)
        /\ at \in {"mascots", "votes"}
        /\ at = "votes" => Len(votes) - Len(filtered) > 0
        /\ uploads' = unlink(uploads, mascots[mascotIndex].imageUrl)
        /\ mascots' = splice(mascots, mascotIndex)
        /\ votes' = IF at = "mascots" THEN votes ELSE filtered
        /\ files' = IF at = "mascots" THEN files
                    ELSE saveData(files, "mascots", mascots')
        /\ Fail("deleteEntry", userId, mascotId)
        /\ UNCHANGED <<users, tokens, pending>>

DeleteAccountFails(tok, at) ==
    LET userId == tok.id
        userIndex == findUserById(userId)
        userMascot == findMascotByUser(userId)
        spliced == IF userMascot # 0
                   THEN splice(mascots, findMascotById(mascots[userMascot].id))
                   ELSE mascots
        votes1 == IF userMascot # 0
                  THEN votesNotFor(votes, mascots[userMascot].id)
                  ELSE votes
        votes2 == votesNotBy(votes1, userId)
        files1 == IF userMascot # 0
                  THEN saveData(files, "mascots", spliced)
                  ELSE files
    IN  /\ authenticateToken(tok) = 0
        /\ userIndex # 0
        /\ at \in {"mascots", "votes", "users"}
        /\ at = "mascots" => userMascot # 0
        /\ at = "votes" => Len(votes1) - Len(votes2) > 0
        /\ uploads' = IF userMascot # 0
                      THEN unlink(uploads, mascots[userMascot].imageUrl)
                      ELSE uploads
        /\ mascots' = spliced
        /\ votes' = IF at = "mascots" THEN votes ELSE votes2
        /\ users' = IF at = "users" THEN splice(users, userIndex) ELSE users
        /\ files' = IF at = "mascots" THEN files
                    ELSE IF at = "votes" THEN files1
                    ELSE IF Len(votes1) - Len(votes2) > 0
                    THEN saveData(files1, "votes", votes2)
                    ELSE files1
        /\ Fail("deleteAccount", userId,
                IF userMascot # 0 THEN mascots[userMascot].id ELSE 0)
        /\ UNCHANGED <<tokens, pending>>

(***************************************************************************)
(* GET /api/user/votes and GET /api/user/me: they answer from the          *)
(* collections and change none.                                            *)
(***************************************************************************)
GetUserVotes(tok) ==
    LET auth == authenticateToken(tok)
    IN  IF auth # 0
        THEN Reject(auth)
        ELSE /\ Respond("listVotes", 200, tok.id, 0, 0)
             /\ UNCHANGED <<users, mascots, votes, files, uploads, tokens,
                            pending>>

GetUser(tok) ==
    LET auth == authenticateToken(tok)
    IN  IF auth # 0
        THEN Reject(auth)
        ELSE IF findUserById(tok.id) = 0
        THEN Reject(404)
        ELSE /\ Respond("getUser", 200, tok.id, 0, 0)
             /\ UNCHANGED <<users, mascots, votes, files, uploads, tokens,
                            pending>>

(***************************************************************************)
(* DELETE /api/admin/clear/mascots, /votes, /all: no authenticateToken.    *)
(***************************************************************************)
AdminClearMascots ==
    /\ mascots' = <<>>
    /\ files' = saveData(files, "mascots", mascots')
    /\ Respond("clearMascots", 200, 0, 0, 0)
    /\ UNCHANGED <<users, votes, uploads, tokens, pending>>

AdminClearVotes ==
    /\ votes' = <<>>
    /\ files' = saveData(files, "votes", votes')
    /\ Respond("clearVotes", 200, 0, 0, 0)
    /\ UNCHANGED <<users, mascots, uploads, tokens, pending>>

AdminClearAll ==
    /\ mascots' = <<>>
    /\ votes' = <<>>
    /\ files' = saveData(saveData(files, "mascots", mascots'), "votes", votes')
    /\ Respond("clearAll", 200, 0, 0, 0)
    /\ UNCHANGED <<users, uploads, tokens, pending>>

\* The tokens a request can carry: any token issued so far, none, or a bad one.
Carried == tokens \cup {NoToken, BadToken}

\* The requests with an argument from S: every issued token with every
\* argument; authenticateToken turns the others away before the argument is
\* read, so one argument stands for all.
Requests(S) ==
    {<<t, x>> : t \in tokens, x \in S}
        \cup {<<t, CHOOSE x \in S : TRUE>> : t \in {NoToken, BadToken}}

\* The requests of the clients
UserNext ==
    \/ \E r \in RegisterInputs : RegisterBegin(r[1], r[2], r[3])
    \/ \E i \in DOMAIN pending : RegisterFinish(i)
    \/ \E l \in LoginInputs : Login(l[1], l[2])
    \/ \E r \in Requests(MascotInputs) :
           CreateEntry(r[1], r[2][1], r[2][2], FALSE)
    \/ \E r \in Requests(MascotIds) : DeleteEntry(r[1], r[2])
    \/ \E r \in Requests(MascotIds) : CastVote(r[1], r[2])
    \/ \E r \in Requests(MascotIds) : WithdrawVote(r[1], r[2])
    \/ \E t \in Carried : DeleteAccount(t)

\* The requests that only read
ReadNext ==
    \/ \E t \in Carried : GetUserVotes(t)
    \/ \E t \in Carried : GetUser(t)

AdminNext ==
    \/ AdminClearMascots
    \/ AdminClearVotes
    \/ AdminClearAll

Next == UserNext \/ AdminNext

Spec == Init /\ [][Next]_vars

\* The server with no request to the admin endpoints
UserSpec == Init /\ [][UserNext]_vars

\* The requests that carry an image file
UploadNext ==
    \E r \in Requests(MascotInputs) : CreateEntry(r[1], r[2][1], r[2][2], TRUE)

\* The server with entries that have an image, and no request to the admin
\* endpoints
MediaSpec == Init /\ [][UserNext \/ UploadNext]_vars

\* The deletions in which fs.unlinkSync throws
UnlinkFaultNext ==
    \/ \E t \in tokens, m \in MascotIds : DeleteEntryUnlinkFails(t, m)
    \/ \E t \in tokens : DeleteAccountUnlinkFails(t)

\* The server with entries that have an image and an uploads directory whose
\* files may refuse to be deleted
MediaFaultSpec == Init /\ [][UserNext \/ UploadNext \/ UnlinkFaultNext]_vars

\* The files saveData writes
DataFiles == {"users", "mascots", "votes"}

\* The mutations in which a saveData throws
WriteFaultNext ==
    \/ \E i \in DOMAIN pending : RegisterFinishFails(i)
    \/ \E t \in tokens, m \in MascotInputs :
           CreateEntryFails(t, m[1], m[2], FALSE)
    \/ \E t \in tokens, m \in MascotIds, at \in DataFiles :
           CastVoteFails(t, m, at)
    \/ \E t \in tokens, m \in MascotIds, at \in DataFiles :
           WithdrawVoteFails(t, m, at)
    \/ \E t \in tokens, m \in MascotIds, at \in DataFiles :
           DeleteEntryFails(t, m, at)
    \/ \E t \in tokens, at \in DataFiles : DeleteAccountFails(t, at)

\* The requests of the clients that are not turned away (a request that is
\* turned away changes nothing but the response)
AcceptedNext ==
    \/ (\E r \in RegisterInputs : RegisterBegin(r[1], r[2], r[3]))
           /\ last'.op # "rejected"
    \/ \E i \in DOMAIN pending : RegisterFinish(i)
    \/ (\E l \in LoginInputs : Login(l[1], l[2])) /\ last'.op # "rejected"
    \/ (\E t \in tokens, m \in MascotInputs :
            CreateEntry(t, m[1], m[2], FALSE)) /\ last'.op # "rejected"
    \/ (\E t \in tokens, m \in MascotIds : DeleteEntry(t, m))
           /\ last'.op # "rejected"
    \/ (\E t \in tokens, m \in MascotIds : CastVote(t, m))
           /\ last'.op # "rejected"
    \/ (\E t \in tokens, m \in MascotIds : WithdrawVote(t, m))
           /\ last'.op # "rejected"
    \/ (\E t \in tokens : DeleteAccount(t)) /\ last'.op # "rejected"

\* The server, without the admin routes, on a disk whose writes may fail
WriteFaultSpec == Init /\ [][AcceptedNext \/ WriteFaultNext]_vars

\* The server with the requests that only read, and no request to the admin
\* endpoints
ReadSpec == Init /\ [][UserNext \/ ReadNext]_vars

(***************************************************************************)
(* The browser client's AuthProvider.  A token is kept as the id of the    *)
(* account it was issued to, 0 for null; currentUser is the provider's     *)
(* user, 0 for null.  login, register and getCurrentUser await the server: *)
(* each is a request put in flight and a later step, Settle, that runs the *)
(* code after the await with the answer, a success or an error.  The       *)
(* requests in flight settle in any order.                                 *)
(***************************************************************************)
server == <<users, mascots, votes, files, uploads, tokens, pending, last,
            faults>>

\* The accounts the person at the browser can log in to or register.
Accounts == 1..MaxUsers

isAuthenticated == currentUser # 0

\* api.get('/api/user/me'), sent with the token tok
getCurrentUser(reqs, tok) == Append(reqs, [call |-> "getCurrentUser", id |-> tok])

\* setToken(null) and setUser(null) of logout
logout == [token |-> 0, user |-> 0]

\* login(email, password) up to its await
ClientLogin(a) ==
    /\ Len(inflight) < MaxRequests
    /\ inflight' = Append(inflight, [call |-> "login", id |-> a])
    /\ UNCHANGED <<token, currentUser, loading, server>>

\* register(username, email, password) up to its await
ClientRegister(a) ==
    /\ Len(inflight) < MaxRequests
    /\ inflight' = Append(inflight, [call |-> "register", id |-> a])
    /\ UNCHANGED <<token, currentUser, loading, server>>

\* The code after the await of request i.  ok: the server answered 2xx;
\* fresh: the token of the answer differs from the provider's token although
\* it is for the same account (a token carries its time of issue).  After a
\* login or a registration the effect on [token, getCurrentUser] runs when
\* the token changed, and sends getCurrentUser.
Settle(i, ok, fresh) ==
    LET r == inflight[i]
        rest == splice(inflight, i)
    IN  /\ IF r.call \in {"login", "register"}
           THEN IF ok
                THEN /\ token' = r.id
                     /\ currentUser' = r.id
                     /\ inflight' = IF token # r.id \/ fresh
                                    THEN getCurrentUser(rest, r.id)
                                    ELSE rest
                     /\ UNCHANGED loading
                ELSE /\ inflight' = rest
                     /\ UNCHANGED <<token, currentUser, loading>>
           ELSE IF ok
                THEN /\ currentUser' = r.id
                     /\ loading' = FALSE
                     /\ inflight' = rest
                     /\ UNCHANGED token
                ELSE /\ token' = logout.token
                     /\ currentUser' = logout.user
                     /\ loading' = FALSE
                     /\ inflight' = rest
        /\ UNCHANGED server

\* logout(), and the effect's setLoading(false) for the null token
Logout ==
    /\ token' = logout.token
    /\ currentUser' = logout.user
    /\ loading' = FALSE
    /\ UNCHANGED <<inflight, server>>

\* refreshUser()
RefreshUser ==
    /\ token # 0
    /\ Len(inflight) < MaxRequests
    /\ inflight' = getCurrentUser(inflight, token)
    /\ UNCHANGED <<token, currentUser, loading, server>>

\* The page is loaded again: the provider is mounted with the token of
\* localStorage, no user and loading true, the requests of the old page are
\* gone, and the effect runs for the first time.
Reload ==
    /\ UNCHANGED token
    /\ currentUser' = 0
    /\ loading' = (token # 0)
    /\ inflight' = IF token # 0 THEN getCurrentUser(<<>>, token) ELSE <<>>
    /\ UNCHANGED server

ClientNext ==
    \/ \E a \in Accounts : ClientLogin(a)
    \/ \E a \in Accounts : ClientRegister(a)
    \/ \E i \in DOMAIN inflight : \E ok, fresh \in BOOLEAN : Settle(i, ok, fresh)
    \/ Logout
    \/ RefreshUser
    \/ Reload

\* The AuthProvider of one browser, with a server that answers each request
\* with a success or an error
ClientSpec == Init /\ [][ClientNext]_vars

(***************************************************************************)
(* Properties                                                              *)
(***************************************************************************)
Accepted(op) == last.op = op /\ last.status \in {200, 201}

Rejected == last'.op = "rejected"

Owns(userId) == \E i \in DOMAIN mascots : mascots[i].userId = userId

HasVote(userId, mascotId) ==
    \E i \in DOMAIN votes :
        votes[i].userId = userId /\ votes[i].mascotId = mascotId

\* C1: at most one entry per owning user id in every reachable state, and a
\* createEntry by a user id that already owns an entry is rejected and leaves
\* the entries as they were.
OneEntryPerUser ==
    \A i, j \in DOMAIN mascots :
        mascots[i].userId = mascots[j].userId => i = j

C1_OneEntryPerUser ==
    /\ OneEntryPerUser
    /\ [][/\ OneEntryPerUser'
          /\ \/ Rejected /\ mascots' = mascots
             \/ \A t \in tokens, m \in MascotInputs :
                  ~(Owns(t.id) /\ \E f \in BOOLEAN :
                                      CreateEntry(t, m[1], m[2], f))]_vars

\* an accepted createEntry after which two entries of different owners share
\* an id: the uniqueness that holds is the one per owner
C1_Witness ==
    /\ Accepted("createEntry")
    /\ Len(mascots) = 2
    /\ mascots[1].id = mascots[2].id

\* C2: at most one vote per (voter id, entry id) pair in every reachable
\* state, and a castVote for a pair that already has a vote is rejected and
\* leaves the votes as they were.
OneVotePerPair ==
    \A i, j \in DOMAIN votes :
        (votes[i].userId = votes[j].userId
            /\ votes[i].mascotId = votes[j].mascotId) => i = j

C2_OneVotePerPair ==
    /\ OneVotePerPair
    /\ [][/\ OneVotePerPair'
          /\ \/ Rejected /\ votes' = votes
             \/ \A t \in tokens, m \in MascotIds :
                  ~(HasVote(t.id, m) /\ CastVote(t, m))]_vars

\* two votes are held, both by one voter
C2_Witness ==
    /\ Accepted("castVote")
    /\ Len(votes) = 2
    /\ votes[1].userId = votes[2].userId

\* C3: no vote is held by a user on a live entry that user owns.
C3_NoSelfVote ==
    \A k \in DOMAIN votes, i \in DOMAIN mascots :
        mascots[i].id = votes[k].mascotId
            => votes[k].userId # mascots[i].userId

\* C4: every vote references a user id present in users and an entry id
\* present in the entries, and every entry references a user id present in
\* users.
UserIds == {users[i].id : i \in DOMAIN users}

EntryIds == {mascots[i].id : i \in DOMAIN mascots}

C4_ReferentialIntegrity ==
    /\ \A k \in DOMAIN votes :
         votes[k].userId \in UserIds /\ votes[k].mascotId \in EntryIds
    /\ \A i \in DOMAIN mascots : mascots[i].userId \in UserIds

\* C5: each entry's counter is non-negative and equals the number of vote
\* records whose mascotId is the entry's id.
countVotes(mascotId) ==
    Cardinality({k \in DOMAIN votes : votes[k].mascotId = mascotId})

C5_CounterIsCount ==
    \A i \in DOMAIN mascots :
        mascots[i].votes >= 0 /\ mascots[i].votes = countVotes(mascots[i].id)

\* C6: right after an accepted deleteEntry(requester, entryId) no entry with
\* that id is owned by the requester and no vote has that mascotId.
C6_DeleteEntryCascade ==
    Accepted("deleteEntry") =>
        /\ \A i \in DOMAIN mascots :
             ~(mascots[i].id = last.mascot /\ mascots[i].userId = last.user)
        /\ countVotes(last.mascot) = 0

\* an accepted deleteEntry that leaves an entry of another owner with the
\* deleted id
C6_Witness ==
    /\ Accepted("deleteEntry")
    /\ last.mascot \in EntryIds

\* C7: right after an accepted deleteAccount(U) no entry has userId = U, no
\* vote has userId = U, no vote references the entry U owned and no user
\* record has id U.  (last.mascot is the id of the entry U owned, 0 for none.)
C7_DeleteAccountCascade ==
    Accepted("deleteAccount") =>
        /\ \A i \in DOMAIN mascots : mascots[i].userId # last.user
        /\ \A k \in DOMAIN votes :
             votes[k].userId # last.user /\ votes[k].mascotId # last.mascot
        /\ last.user \notin UserIds

\* C8: an accepted withdrawVote(u, e) removes exactly the one vote (u, e) and
\* sets the counter of the entry found for e to max(0, old counter - 1); the
\* same withdrawVote(u, e) right after it is rejected with 404 and changes
\* neither the votes nor the entries.
C8_WithdrawVote ==
    [][/\ (/\ last'.op = "withdrawVote"
           /\ \E t \in tokens :
                t.id = last'.user /\ WithdrawVote(t, last'.mascot)) =>
            /\ \E k \in DOMAIN votes :
                 /\ votes[k] = [userId |-> last'.user, mascotId |-> last'.mascot]
                 /\ votes' = splice(votes, k)
            /\ ~\E k \in DOMAIN votes' :
                 votes'[k] = [userId |-> last'.user, mascotId |-> last'.mascot]
            /\ \E i \in DOMAIN mascots :
                 /\ mascots[i].id = last'.mascot
                 /\ \A j \in 1..(i - 1) : mascots[j].id # last'.mascot
                 /\ mascots' = [mascots EXCEPT ![i].votes =
                                  IF @ - 1 > 0 THEN @ - 1 ELSE 0]
                 /\ last'.id = mascots'[i].votes
       /\ last.op = "withdrawVote" =>
            \A t \in tokens :
                (t.id = last.user /\ WithdrawVote(t, last.mascot))
                    => /\ Rejected
                       /\ last'.status = 404
                       /\ votes' = votes
                       /\ mascots' = mascots]_vars

\* an accepted withdrawVote of a vote whose entry's counter was already 0
\* (the entries were cleared and the id given out again): the floor applies
C8_Witness ==
    /\ Accepted("withdrawVote")
    /\ last.id = 0
    /\ files.votes = <<>>
    /\ \E i \in DOMAIN mascots : mascots[i].id = last.mascot

\* C9: no two user records have the same id.
C9_UniqueUserIds ==
    \A i, j \in DOMAIN users : users[i].id = users[j].id => i = j

\* C10: an accepted register gives the new user, the last of users, the id
\* max(ids of the users before it) + 1, or 1 when there were none.
SetMax(S) == CHOOSE x \in S : \A y \in S : y <= x

C10_RegisterAssignsMaxPlusOne ==
    Accepted("register") =>
        LET before == SubSeq(users, 1, Len(users) - 1)
        IN  /\ users[Len(users)].id = last.id
            /\ last.id = IF before = <<>> THEN 1
                         ELSE SetMax({before[i].id : i \in DOMAIN before}) + 1

\* C11: no two records of the entries have the same id.
C11_UniqueEntryIds ==
    \A i, j \in DOMAIN mascots : mascots[i].id = mascots[j].id => i = j

\* C12: in every reachable state, whatever the interleaving of the register
\* requests, no two user records share an email and no two share a username.
C12_UniqueEmailAndUsername ==
    \A i, j \in DOMAIN users :
        (users[i].email = users[j].email
            \/ users[i].username = users[j].username) => i = j

\* C13: a register whose email does not end, compared without regard to
\* case, with the domain suffix, or whose email or username is that of an
\* existing user, is rejected: it is answered with a rejection, is not carried
\* on to the append, and leaves users as it was.
EndsWithDomainIgnoringCase(email) ==
    LET cs == Chars(email)
        suffix == Chars("@ofiservices.com")
    IN  /\ Len(cs) >= Len(suffix)
        /\ \A k \in 1..Len(suffix) :
             LowerChar(cs[Len(cs) - Len(suffix) + k]) = suffix[k]

OutsideDomain == {e \in Emails : ~EndsWithDomainIgnoringCase(e)}

C13_RegisterRejected ==
    [][\/ /\ Rejected
          /\ last'.status = 400
          /\ users' = users
          /\ pending' = pending
       \/ \A r \in RegisterInputs :
            ~(/\ \/ r[2] \in OutsideDomain
                 \/ \E i \in DOMAIN users : users[i].email = r[2]
                 \/ \E i \in DOMAIN users : users[i].username = r[1]
              /\ RegisterBegin(r[1], r[2], r[3]))]_vars

\* a register was turned away while two registered users were present, one
\* of them with the domain in capitals
C13_Witness ==
    /\ last.op = "rejected"
    /\ last.status = 400
    /\ Len(users) = 2
    /\ users[1].email = EmailB
    /\ users[2].username = "alice"
    /\ tokens = {generateToken(users[1]), generateToken(users[2])}

\* C14: every record of users has an email that ends with the domain suffix
\* (compared as register compares it, without regard to case).
C14_UsersInDomain ==
    \A i \in DOMAIN users : EndsWithDomainIgnoringCase(users[i].email)

\* C15: castVote(u, e) is accepted if and only if an entry with id e exists,
\* the entry found for e (the first with that id) is not owned by u, and no
\* vote (u, e) exists; it is rejected with 404 when no entry has id e, and
\* with 400 when the entry found is u's own or a vote (u, e) exists.
FirstWithId(mascotId) ==
    CHOOSE i \in DOMAIN mascots :
        /\ mascots[i].id = mascotId
        /\ \A j \in 1..(i - 1) : mascots[j].id # mascotId

C16_CastVoteFrame ==
    [][(/\ last'.op = "castVote"
        /\ \E t \in tokens : t.id = last'.user /\ CastVote(t, last'.mascot)) =>
          LET i == FirstWithId(last'.mascot)
          IN  /\ votes' = votes \o <<[userId |-> last'.user,
                                      mascotId |-> last'.mascot]>>
              /\ Len(mascots') = Len(mascots)
              /\ mascots'[i].votes = mascots[i].votes + 1
              /\ \A f \in {"id", "userId", "imageUrl"} :
                   mascots'[i][f] = mascots[i][f]
              /\ \A j \in DOMAIN mascots : j # i => mascots'[j] = mascots[j]
              /\ last'.id = mascots[i].votes + 1
              /\ users' = users]_vars

\* an accepted castVote that brings a counter to 2 while the other entry
\* keeps its counter of 0
C16_Witness ==
    /\ Accepted("castVote")
    /\ last.id = 2
    /\ \E j \in DOMAIN mascots : mascots[j].votes = 0

\* C17: a deleteEntry(requester, entryId) whose entry found for entryId is
\* owned by another user id is rejected with 403 and leaves the entries, the
\* votes, the users and the files of the uploads directory as they were; an
\* accepted deleteAccount removes from users one record, whose id is the id
\* of the requester's token.
C17_OwnerOnly ==
    [][/\ \/ /\ Rejected
             /\ last'.status = 403
             /\ mascots' = mascots
             /\ votes' = votes
             /\ users' = users
             /\ uploads' = uploads
          \/ \A t \in tokens, m \in MascotIds :
               ~(/\ m \in EntryIds
                 /\ mascots[FirstWithId(m)].userId # t.id
                 /\ DeleteEntry(t, m))
       /\ (/\ last'.op = "deleteAccount"
           /\ \E t \in tokens : t.id = last'.user /\ DeleteAccount(t)) =>
             \E k \in DOMAIN users :
                 users[k].id = last'.user /\ users' = splice(users, k)]_vars

\* a deleteEntry was refused with 403 while the entry of another user, with
\* its image on disk, is present
C17_Witness ==
    /\ last.op = "rejected"
    /\ last.status = 403
    /\ \E t \in tokens : \E i \in DOMAIN mascots :
         mascots[i].userId # t.id /\ mascots[i].imageUrl \in uploads

\* loadData: each collection is read back from its file
loadData(f) == <<f.users, f.mascots, f.votes>>

\* C18: whenever the last request was a mutation that completed, each of the
\* three files holds the collection in memory, so that loadData gives back
\* the users, the entries and the votes.
C18_FilesMatchMemory ==
    last.status \in {200, 201} => loadData(files) = <<users, mascots, votes>>

\* C19: a request to a protected operation (createEntry, deleteEntry,
\* castVote, withdrawVote, listVotesByUser, getUser, deleteAccount) that
\* carries no token is rejected with 401, one whose token fails verification
\* with 403, and either leaves users, entries and votes (and the files of the
\* uploads directory) as they were.
Protected(tok) ==
    \/ \E m \in MascotInputs, f \in BOOLEAN : CreateEntry(tok, m[1], m[2], f)
    \/ \E m \in MascotIds :
         DeleteEntry(tok, m) \/ CastVote(tok, m) \/ WithdrawVote(tok, m)
    \/ GetUserVotes(tok)
    \/ GetUser(tok)
    \/ DeleteAccount(tok)

C19_TokenRequired ==
    [][/\ Protected(NoToken) =>
            /\ Rejected
            /\ last'.status = 401
            /\ UNCHANGED <<users, mascots, votes, uploads>>
       /\ Protected(BadToken) =>
            /\ Rejected
            /\ last'.status = 403
            /\ UNCHANGED <<users, mascots, votes, uploads>>]_vars

\* a request was turned away with 401 while entries and votes are present
\* and two users hold tokens
C19_Witness ==
    /\ last.op = "rejected"
    /\ last.status = 401
    /\ Len(mascots) = 2
    /\ votes # <<>>
    /\ Cardinality(tokens) = 2

\* C20: every step that changes the entries or the votes is the answer to a
\* request made with a verified token, the token of the user the response
\* names.
C20_ChangesNeedToken ==
    [][(mascots' # mascots \/ votes' # votes) =>
          \E t \in tokens : authenticateToken(t) = 0 /\ t.id = last'.user]_vars

\* C21 (as claimed): of two castVote requests by one user for one entry that
\* are in flight together, the second to be handled is accepted like the
\* first, its uniqueness check having passed before the first vote was
\* appended.  (The handler has no await: the requests are handled one after
\* the other, in either order, and the two orders are alike.)
C21_BothVotesAccepted ==
    [][(/\ last.op = "castVote"
        /\ last.status = 200
        /\ \E t \in tokens : t.id = last.user /\ CastVote(t, last.mascot))
          => last'.op = "castVote" /\ last'.status = 200]_vars

\* C21 (amended): of two castVote requests by one user for one entry that are
\* in flight together, the one handled first is accepted and the one handled
\* right after it is rejected with 400 and changes neither the votes nor the
\* entries: no interleaving leaves two votes of one pair or a counter
\* incremented twice.
C21_SecondVoteRejected ==
    [][(/\ last.op = "castVote"
        /\ last.status = 200
        /\ \E t \in tokens : t.id = last.user /\ CastVote(t, last.mascot))
          => /\ Rejected
             /\ last'.status = 400
             /\ votes' = votes
             /\ mascots' = mascots]_vars

\* a request was refused with 400 while the one vote held is counted once
C21_Witness ==
    /\ last.op = "rejected"
    /\ last.status = 400
    /\ Len(votes) = 1
    /\ \E t \in tokens : HasVote(t.id, votes[1].mascotId)
    /\ \E i \in DOMAIN mascots :
         mascots[i].id = votes[1].mascotId /\ mascots[i].votes = 1

\* C22: when the unlink of the image fails during deleteEntry or
\* deleteAccount, the failure is reported and the deletion is complete all
\* the same: the requester's entry (the one with the id of the request, for
\* deleteEntry) is no longer among the entries and no vote references it.
C22_DeletionCompletesWhenUnlinkFails ==
    (last.status = 500 /\ last.op \in {"deleteEntry", "deleteAccount"}) =>
        /\ \A i \in DOMAIN mascots :
             ~(mascots[i].id = last.mascot /\ mascots[i].userId = last.user)
        /\ countVotes(last.mascot) = 0

\* C23: in deleteEntry and in deleteAccount the unlink of the image comes
\* before the entry is taken out of the entries and uses the imageUrl of the
\* entry the handler found (the first with the id of the request; the first
\* of the requester): when the unlink throws the entries are still whole, an
\* accepted deletion leaves no file of that name and no other file touched,
\* and an imageUrl whose file is absent does not make the deletion fail.
Found(op, userId, mascotId) ==
    IF op = "deleteEntry" THEN mascots[FirstWithId(mascotId)]
    ELSE mascots[CHOOSE i \in DOMAIN mascots :
                    /\ mascots[i].userId = userId
                    /\ \A j \in 1..(i - 1) : mascots[j].userId # userId]

C24_FailedWriteKeepsMutation ==
    [][(last'.status = 500 /\ faults' = faults + 1) =>
          LET u == last'.user
              m == last'.mascot
              op == last'.op
          IN  /\ op = "register" =>
                   /\ Len(users') = Len(users) + 1
                   /\ users'[Len(users')].id = u
              /\ op = "createEntry" =>
                   /\ Len(mascots') = Len(mascots) + 1
                   /\ mascots'[Len(mascots')].userId = u
              /\ op = "castVote" =>
                   /\ votes' = votes \o <<[userId |-> u, mascotId |-> m]>>
                   /\ mascots'[FirstWithId(m)].votes
                          = mascots[FirstWithId(m)].votes + 1
              /\ op = "withdrawVote" =>
                   /\ Len(votes') = Len(votes) - 1
                   /\ \A k \in DOMAIN votes' :
                        votes'[k] # [userId |-> u, mascotId |-> m]
                   /\ mascots'[FirstWithId(m)].votes
                          = Max(0, mascots[FirstWithId(m)].votes - 1)
              /\ op = "deleteEntry" =>
                   /\ \A i \in DOMAIN mascots' :
                        ~(mascots'[i].id = m /\ mascots'[i].userId = u)
                   /\ \A k \in DOMAIN votes' : votes'[k].mascotId # m
              /\ op = "deleteAccount" =>
                   /\ Len(users') = Len(users) - 1
                   /\ \A i \in DOMAIN mascots' : mascots'[i].userId # u
                   /\ \A k \in DOMAIN votes' :
                        votes'[k].userId # u /\ votes'[k].mascotId # m
              /\ C4_ReferentialIntegrity => C4_ReferentialIntegrity']_vars

\* C25: a request that is rejected (for a validation, conflict, not-found,
\* ownership or authentication reason) leaves users, entries and votes, and
\* their three files, exactly as they were.
C25_RejectionChangesNothing ==
    [][Rejected =>
          /\ users' = users
          /\ mascots' = mascots
          /\ votes' = votes
          /\ files' = files]_vars

\* a createEntry that carried an image was refused with 400: the image is in
\* the uploads directory, the collections and their files are as before
C25_Witness ==
    /\ last.op = "rejected"
    /\ last.status = 400
    /\ uploads # {}
    /\ \A i \in DOMAIN mascots : mascots[i].imageUrl = 0
    /\ mascots # <<>>
    /\ files.mascots = mascots

\* C26: an accepted deleteAccount with the token of user id U removes one
\* user record, of id U, and leaves in place every record of another user
\* id, every entry owned by another user id, and every vote that is neither
\* by U nor on the id of an entry U owned.
OthersEntries(ms, userId) ==
    LET Keep(r) == r.userId # userId IN SelectSeq(ms, Keep)

OthersVotes(vs, userId, owned) ==
    LET Keep(v) == v.userId # userId /\ v.mascotId \notin owned
    IN  SelectSeq(vs, Keep)

C26_DeleteAccountOnlyOwn ==
    [][(/\ last'.op = "deleteAccount"
        /\ last'.status = 200
        /\ \E t \in tokens : t.id = last'.user /\ DeleteAccount(t)) =>
          LET U == last'.user
              owned == {mascots[i].id : i \in {j \in DOMAIN mascots :
                                                  mascots[j].userId = U}}
              OtherUser(r) == r.id # U
          IN  /\ Len(users') = Len(users) - 1
              /\ SelectSeq(users', OtherUser) = SelectSeq(users, OtherUser)
              /\ OthersEntries(mascots', U) = OthersEntries(mascots, U)
              /\ OthersVotes(votes', U, owned) = OthersVotes(votes, U, owned)]_vars

\* C27: once the account of a user id is deleted, a createEntry or castVote
\* carrying a token of that id is rejected, as long as no user has the id
\* again: no entry and no vote with that userId appears.
C27_DeletedAccountCannotAct ==
    [][\A t \in tokens :
         (/\ t.id \notin UserIds
          /\ \/ \E m \in MascotInputs, f \in BOOLEAN :
                   CreateEntry(t, m[1], m[2], f)
             \/ \E m \in MascotIds : CastVote(t, m))
            => /\ Rejected
               /\ mascots' = mascots
               /\ votes' = votes]_vars

\* C28: the owner of an entry can delete it: a deleteEntry by the owner, with
\* the id of the entry, is accepted and takes that entry out of the entries.
C28_OwnerCanDelete ==
    [][\A t \in tokens, i \in DOMAIN mascots :
         (mascots[i].userId = t.id /\ DeleteEntry(t, mascots[i].id))
            => /\ last'.op = "deleteEntry"
               /\ last'.status = 200
               /\ mascots' = splice(mascots, i)]_vars

\* C29: every file of the uploads directory is the image of exactly one
\* entry.
C29_EveryFileHasOneEntry ==
    \A f \in uploads :
        Cardinality({i \in DOMAIN mascots : mascots[i].imageUrl = f}) = 1

\* C30: in the browser's AuthProvider the user is non-null (isAuthenticated)
\* only while the token is non-null, under every interleaving of login,
\* register, logout, refreshUser and the answers to getCurrentUser.
C30_UserOnlyWithToken == isAuthenticated => token # 0

====
